---- MODULE Spec2Model ----
(***************************************************************************)
(* Model of api/search.js: the /api/search aggregation endpoint.           *)
(*                                                                         *)
(* Strings are sequences of one-character strings.  JavaScript values that *)
(* travel through `||` chains are records [t, v]: t is the type tag and v  *)
(* the String() form of the value.  Numeric prices are counted in          *)
(* hundredths (12.5 is 1250), null prices are NullPrice.                   *)
(***************************************************************************)
EXTENDS Integers, Sequences, FiniteSets, TLC

\* ------------------------------------------------------------------------
\* JavaScript values
\* ------------------------------------------------------------------------
Undef == [t |-> "undef", v |-> << >>]
JNull == [t |-> "null", v |-> << >>]
Str(s) == [t |-> "str", v |-> s]
Num(s) == [t |-> "num", v |-> s]

\* ToBoolean: undefined, null, "" and 0 are falsy
Truthy(x) ==
    \/ x.t = "str" /\ x.v # << >>
    \/ x.t = "num" /\ x.v # <<"0">>

\* a || b
Or(a, b) == IF Truthy(a) THEN a ELSE b

Digits == {"0", "1", "2", "3", "4", "5", "6", "7", "8", "9"}

DigitVal(c) ==
    CASE c = "0" -> 0 [] c = "1" -> 1 [] c = "2" -> 2 [] c = "3" -> 3
      [] c = "4" -> 4 [] c = "5" -> 5 [] c = "6" -> 6 [] c = "7" -> 7
      [] c = "8" -> 8 [] c = "9" -> 9

\* \s of the regular expressions and of String.prototype.trim
IsSpace(c) == c \in {" ", "\t", "\n"}

RECURSIVE TrimStart(_)
TrimStart(s) ==
    IF s # << >> /\ IsSpace(Head(s)) THEN TrimStart(Tail(s)) ELSE s

RECURSIVE TrimEnd(_)
TrimEnd(s) ==
    IF s # << >> /\ IsSpace(s[Len(s)])
    THEN TrimEnd(SubSeq(s, 1, Len(s) - 1))
    ELSE s

\* String.prototype.trim
Trim(s) == TrimEnd(TrimStart(s))

LowerChar(c) ==
    CASE c = "A" -> "a" [] c = "B" -> "b" [] c = "C" -> "c" [] OTHER -> c

\* String.prototype.toLowerCase
ToLowerCase(s) == [i \in 1..Len(s) |-> LowerChar(s[i])]

\* String.prototype.includes
Includes(s, sub) ==
    \E i \in 0..(Len(s) - Len(sub)) : SubSeq(s, i + 1, i + Len(sub)) = sub

\* ------------------------------------------------------------------------
\* parsePrice
\* ------------------------------------------------------------------------
NullPrice == -1
Scale == 100

RECURSIVE DigitPrefix(_)
DigitPrefix(s) ==
    IF s # << >> /\ Head(s) \in Digits
    THEN <<Head(s)>> \o DigitPrefix(Tail(s))
    ELSE << >>

RECURSIVE IntOf(_)
IntOf(ds) ==
    IF ds = << >> THEN 0
    ELSE 10 * IntOf(SubSeq(ds, 1, Len(ds) - 1)) + DigitVal(ds[Len(ds)])

\* the fraction digits of a decimal literal, in hundredths
FracOf(ds) ==
    (IF Len(ds) >= 1 THEN 10 * DigitVal(ds[1]) ELSE 0)
    + (IF Len(ds) >= 2 THEN DigitVal(ds[2]) ELSE 0)

\* parseFloat of a string made of digits and periods; NullPrice stands for NaN
ParseFloat(s) ==
    LET ip == DigitPrefix(s)
        rest == SubSeq(s, Len(ip) + 1, Len(s))
        fp == IF rest # << >> /\ Head(rest) = "." THEN DigitPrefix(Tail(rest)) ELSE << >>
    IN  IF ip = << >> /\ fp = << >> THEN NullPrice
        ELSE Scale * IntOf(ip) + FracOf(fp)

parsePrice(priceStr) ==
    IF priceStr.t \in {"undef", "null"} THEN NullPrice
    ELSE LET kept == SelectSeq(priceStr.v, LAMBDA c : c \in Digits \cup {".", ","})
             cleaned == SelectSeq(kept, LAMBDA c : c # ",")
         IN  ParseFloat(cleaned)

\* ------------------------------------------------------------------------
\* normalizeSerpItem
\* ------------------------------------------------------------------------
\* a provider record that carries none of the known fields
EmptyItem ==
    [title |-> Undef, product_title |-> Undef, name |-> Undef,
     thumbnail |-> Undef, thumbnail_link |-> Undef, image |-> Undef,
     inline_images |-> [present |-> FALSE, items |-> << >>],
     link |-> Undef, product_link |-> Undef, source |-> Undef, result_link |-> Undef,
     extracted_price |-> Undef, price |-> Undef,
     offers |-> [present |-> FALSE, items |-> << >>],
     currency |-> Undef, merchant |-> Undef, store |-> Undef]

\* item.inline_images && item.inline_images[0]
FirstInlineImage(item) ==
    IF item.inline_images.present /\ item.inline_images.items # << >>
    THEN item.inline_images.items[1]
    ELSE Undef

\* item.offers && item.offers[0] && (item.offers[0].price || item.offers[0].extracted_price)
FirstOfferPrice(item) ==
    IF item.offers.present /\ item.offers.items # << >>
    THEN Or(item.offers.items[1].price, item.offers.items[1].extracted_price)
    ELSE Undef

\* String(priceRaw).replace(/[\d.,\s]/g, '').trim()
CurrencyOf(priceRaw) ==
    Str(Trim(SelectSeq(priceRaw.v,
                       LAMBDA c : ~(c \in Digits \cup {".", ","} \/ IsSpace(c)))))

ItemTitle(item) == Or(Or(Or(item.title, item.product_title), item.name), Str(<< >>))

ItemLink(item) ==
    Or(Or(Or(Or(item.link, item.product_link), item.source), item.result_link), JNull)

\* variant: price read before extracted_price
ItemPriceRawPriceFirst(item) ==
    Or(Or(Or(item.price, item.extracted_price), FirstOfferPrice(item)), JNull)

ItemPriceRaw(item) ==
    Or(Or(Or(item.extracted_price, item.price), FirstOfferPrice(item)), JNull)

ItemMerchant(item) == Or(Or(Or(item.merchant, item.source), item.store), JNull)

normalizeSerpItem(item) ==
    LET title == ItemTitle(item)
        thumbnail == Or(Or(Or(Or(item.thumbnail, item.thumbnail_link), item.image),
                           FirstInlineImage(item)), JNull)
        link == ItemLink(item)
        priceRaw == ItemPriceRaw(item)
        currency == Or(Or(item.currency,
                          IF Truthy(priceRaw) THEN CurrencyOf(priceRaw) ELSE priceRaw),
                       JNull)
        price == parsePrice(priceRaw)
        merchant == ItemMerchant(item)
    IN  [title |-> title, price |-> price, currency |-> currency, image |-> thumbnail,
         link |-> link, merchant |-> merchant, raw |-> <<item>>]

\* ------------------------------------------------------------------------
\* sorting and filtering of offers
\* ------------------------------------------------------------------------
\* a.price || 0
PriceOrZero(o) == IF o.price = NullPrice THEN 0 ELSE o.price

\* (a, b) => (a.price || 0) - (b.price || 0)
Compare(a, b) == PriceOrZero(a) - PriceOrZero(b)

\* variant: an unstable sort, x placed before the elements that compare equal
RECURSIVE InsertSortedBeforeEqual(_, _)
InsertSortedBeforeEqual(x, s) ==
    IF s = << >> THEN <<x>>
    ELSE IF Compare(Head(s), x) < 0
         THEN <<Head(s)>> \o InsertSortedBeforeEqual(x, Tail(s))
         ELSE <<x>> \o s

\* position of x among the already sorted s: behind every element that is not greater
RECURSIVE InsertSorted(_, _)
InsertSorted(x, s) ==
    IF s = << >> THEN <<x>>
    ELSE IF Compare(Head(s), x) <= 0
         THEN <<Head(s)>> \o InsertSorted(x, Tail(s))
         ELSE <<x>> \o s

RECURSIVE SortFrom(_, _)
SortFrom(todo, done) ==
    IF todo = << >> THEN done
    ELSE SortFrom(Tail(todo), InsertSorted(Head(todo), done))

\* variant: the comparator's operands exchanged, (b.price || 0) - (a.price || 0)
SortByPriceDescending(list) ==
    LET up == SortFrom(list, << >>)
    IN  [i \in 1..Len(up) |-> up[Len(up) + 1 - i]]

\* Array.prototype.sort with Compare (stable)
SortByPrice(list) == SortFrom(list, << >>)

\* variant: the filter without its link test
KeepOfferWithPrice(it) == it.price # NullPrice

\* it => it.price != null && it.link
KeepOffer(it) == it.price # NullPrice /\ Truthy(it.link)

\* rawList.map(normalizeSerpItem).filter(...).sort(...)
NormalizeList(rawList) ==
    SortByPrice(SelectSeq([i \in 1..Len(rawList) |-> normalizeSerpItem(rawList[i])],
                          KeepOffer))

\* ------------------------------------------------------------------------
\* callSerpApi and callFakeStore
\* ------------------------------------------------------------------------
\* a field of the provider's envelope: absent, an array, or some other truthy value
NoList == [t |-> "undef", items |-> << >>]
ArrayOf(items) == [t |-> "array", items |-> items]
NotAList == [t |-> "object", items |-> << >>]

\* serp.shopping_results || serp.inline_shopping_results || serp['shopping_results'] || []
RawListOf(serp) ==
    IF serp.shopping_results.t # "undef" THEN serp.shopping_results
    ELSE IF serp.inline_shopping_results.t # "undef" THEN serp.inline_shopping_results
    ELSE ArrayOf(<< >>)

\* the offers the primary attempt leaves in `normalized`; outcome is what
\* callSerpApi did: it threw, or it returned the parsed envelope
PrimaryOffers(outcome) ==
    IF outcome.threw THEN << >>
    ELSE LET rawList == RawListOf(outcome.serp)
         IN  IF rawList.t = "array" /\ Len(rawList.items) > 0
             THEN NormalizeList(rawList.items)
             ELSE << >>

RECURSIVE IntToStr(_)
IntToStr(n) ==
    LET d == CHOOSE c \in Digits : DigitVal(c) = n % 10
    IN  IF n < 10 THEN <<d>> ELSE IntToStr(n \div 10) \o <<d>>

ProductUrl == <<"https://fakestoreapi.com/products/">>

\* p => p.title && p.title.toLowerCase().includes(query.toLowerCase())
ProductMatches(p, query) ==
    Truthy(p.title) /\ Includes(ToLowerCase(p.title.v), ToLowerCase(query))

ProductOffer(p) ==
    [title |-> p.title, price |-> p.price, currency |-> Str(<<"U", "S", "D">>),
     image |-> p.image, link |-> Str(ProductUrl \o IntToStr(p.id)),
     merchant |-> Str(<<"FakeStore">>), raw |-> << >>]

\* the value callFakeStore resolves to when the catalogue `items` was fetched
callFakeStore(query, items) ==
    LET filtered == SelectSeq(items, LAMBDA p : ProductMatches(p, query))
    IN  [i \in 1..Len(filtered) |-> ProductOffer(filtered[i])]

\* ------------------------------------------------------------------------
\* handler: the pieces of one request
\* ------------------------------------------------------------------------
CACHE_TTL_MS == 1000 * 60 * 5

\* variant: the query without .trim()
RequestQueryUntrimmed(req) ==
    Or(Or(req.query.query, IF req.body.present THEN req.body.query ELSE Undef),
       Str(<< >>)).v

\* (req.query.query || (req.body && req.body.query) || '').toString().trim()
RequestQuery(req) ==
    Trim(Or(Or(req.query.query, IF req.body.present THEN req.body.query ELSE Undef),
            Str(<< >>)).v)

\* variant: the key without .toLowerCase()
CacheKeyCased(query) == <<"q", ":">> \o query

\* `q:${query.toLowerCase()}`
CacheKey(query) == <<"q", ":">> \o ToLowerCase(query)

\* variant: an entry served whatever its age
IsFreshAlways(c, key, t) == key \in DOMAIN c

\* variant: the comparison turned round, > for <
IsFreshInverted(c, key, t) == key \in DOMAIN c /\ (t - c[key].ts) > CACHE_TTL_MS

\* variant: <= for <
IsFreshInclusive(c, key, t) == key \in DOMAIN c /\ (t - c[key].ts) <= CACHE_TTL_MS

\* cached && (Date.now() - cached.ts) < CACHE_TTL_MS
IsFresh(c, key, t) == key \in DOMAIN c /\ (t - c[key].ts) < CACHE_TTL_MS

\* process.env.SERPAPI_KEY || process.env.SERP_API_KEY || process.env.SERPAPIKEY
\*   || process.env.SERP_KEY || null
ReadApiKey(e) ==
    Or(Or(Or(Or(e.SERPAPI_KEY, e.SERP_API_KEY), e.SERPAPIKEY), e.SERP_KEY), JNull)

\* variant: the primary attempt without its test of the key
UsePrimaryAlways(apiKey) == TRUE

\* if (apiKey)
UsePrimary(apiKey) == Truthy(apiKey)

\* variant: the fallback adapter called whatever the primary path gave
NeedsFallbackAlways(normalized) == TRUE

\* if (!normalized || normalized.length === 0)
NeedsFallback(normalized) == Len(normalized) = 0

\* variant: a write that evicts the entries whose time-to-live has passed
CacheSetEvicting(c, key, t, data) ==
    [k \in {j \in DOMAIN c : t - c[j].ts < CACHE_TTL_MS} \cup {key} |->
        IF k = key THEN [ts |-> t, data |-> data] ELSE c[k]]

\* cache.set(cacheKey, { ts: Date.now(), data: normalized })
CacheSet(c, key, t, data) ==
    [k \in DOMAIN c \cup {key} |-> IF k = key THEN [ts |-> t, data |-> data] ELSE c[k]]

NoResp ==
    [status |-> 0, kind |-> "none", source |-> "", results |-> << >>,
     error |-> "", details |-> ""]

\* res.status(200).end()
RespOptions == [NoResp EXCEPT !.status = 200, !.kind = "end"]

\* res.status(400).json({ error: 'Missing query parameter' })
RespMissing ==
    [NoResp EXCEPT !.status = 400, !.kind = "json", !.error = "Missing query parameter"]

\* res.status(200).json({ source: 'cache', results: cached.data })
RespCache(data) ==
    [NoResp EXCEPT !.status = 200, !.kind = "json", !.source = "cache", !.results = data]

\* variant: the source of a miss without the test of the key
RespOkKeyed(apiKey, normalized) ==
    [NoResp EXCEPT !.status = 200, !.kind = "json",
                   !.source = "serpapi-or-fallback",
                   !.results = normalized]

\* res.status(200).json({ source: apiKey ? ... : ..., results: normalized })
RespOk(apiKey, normalized) ==
    [NoResp EXCEPT !.status = 200, !.kind = "json",
                   !.source = IF Truthy(apiKey) THEN "serpapi-or-fallback"
                              ELSE "fallback-only",
                   !.results = normalized]

\* res.status(500).json({ error: 'Server error', details: (err && err.message) || err })
RespError(message) ==
    [NoResp EXCEPT !.status = 500, !.kind = "json", !.error = "Server error",
                   !.details = message]

\* ------------------------------------------------------------------------
\* inputs: requests, environments, provider payloads, catalogues
\* ------------------------------------------------------------------------
NReq == 2
MaxRequests == 2
MaxTicks == 2

Slots == 1..NReq

NoRequest ==
    [method |-> "", query |-> [query |-> Undef], body |-> [present |-> FALSE, query |-> Undef]]

Get(q) == [NoRequest EXCEPT !.method = "GET", !.query.query = q]
Options(q) == [NoRequest EXCEPT !.method = "OPTIONS", !.query.query = q]
Post(q) == [NoRequest EXCEPT !.method = "POST", !.body = [present |-> TRUE, query |-> q]]

\* GET /search?query=..., OPTIONS /search?query=..., POST /search {"query": ...}
Requests ==
    {Get(Undef), Get(Str(<<" ">>)), Get(Str(<<"a">>)), Get(Str(<<"a", "a">>)),
     Post(Str(<< >>)), Post(Str(<<" ", "A">>)),
     Options(Str(<<" ">>))}

NoEnv == [SERPAPI_KEY |-> Undef, SERP_API_KEY |-> Undef, SERPAPIKEY |-> Undef,
          SERP_KEY |-> Undef]

Envs ==
    {NoEnv,
     [NoEnv EXCEPT !.SERPAPI_KEY = Str(<< >>), !.SERP_KEY = Str(<<"k">>)]}

\* provider records: priced by number and by string, without link, without price
ItemPen ==
    [EmptyItem EXCEPT !.title = Str(<<"p", "e", "n">>), !.link = Str(<<"u", "1">>),
                      !.extracted_price = Num(<<"5">>), !.price = Str(<<"$", "5">>)]
ItemInk ==
    [EmptyItem EXCEPT !.name = Str(<<"i", "n", "k">>), !.product_link = Str(<<"u", "2">>),
                      !.price = Str(<<"$", "3", ".", "5">>)]
ItemNoLink ==
    [EmptyItem EXCEPT !.title = Str(<<"c", "a", "p">>), !.price = Str(<<"$", "1">>)]
ItemNoPrice ==
    [EmptyItem EXCEPT !.title = Str(<<"n", "i", "b">>), !.link = Str(<<"u", "4">>),
                      !.price = Str(<<"N", "/", "A">>)]

RawLists ==
    {<< >>, <<ItemPen, ItemInk>>, <<ItemNoLink, ItemInk, ItemNoPrice>>, <<ItemNoLink>>}

NoSerp == [shopping_results |-> NoList, inline_shopping_results |-> NoList]

\* the envelope null: reading a field of it throws, inside the inner try
Unreadable == [t |-> "throws", items |-> << >>]
NullSerp == [shopping_results |-> Unreadable, inline_shopping_results |-> Unreadable]

Envelopes ==
    {[NoSerp EXCEPT !.shopping_results = ArrayOf(l)] : l \in RawLists}
    \cup {[NoSerp EXCEPT !.inline_shopping_results = ArrayOf(<<ItemPen, ItemInk>>)],
          [shopping_results |-> NotAList,
           inline_shopping_results |-> ArrayOf(<<ItemPen>>)],
          [shopping_results |-> ArrayOf(<< >>),
           inline_shopping_results |-> ArrayOf(<<ItemPen>>)],
          NullSerp}

PrimaryErrors == {"SerpApi HTTP 429 "}
\* fetch rejects, resp.json() rejects a body that is no JSON, or items.filter
\* throws on a payload that is no array: one message stands for the three
FallbackErrors == {"Unexpected token < in JSON at position 0"}

\* what the await of callSerpApi ends with
PrimaryOutcomes ==
    {[threw |-> TRUE, message |-> m, serp |-> NoSerp] : m \in PrimaryErrors}
    \cup {[threw |-> FALSE, message |-> "", serp |-> e] : e \in Envelopes}

NoProduct == [id |-> 0, title |-> Undef, price |-> 0, image |-> Undef]

\* catalogue records; the catalogue always gives a numeric price
ProductBag == [NoProduct EXCEPT !.id = 1, !.title = Str(<<"A", "a">>), !.price = 700]
ProductCap == [NoProduct EXCEPT !.id = 2, !.title = Str(<<"a">>), !.price = 200]
ProductNoTitle == [NoProduct EXCEPT !.id = 3, !.price = 100]

Catalogs ==
    {<< >>, <<ProductBag, ProductCap>>, <<ProductNoTitle, ProductCap>>}

\* what callFakeStore ends with: it threw, or the catalogue was fetched
FallbackOutcomes ==
    {[threw |-> TRUE, message |-> m, items |-> << >>] : m \in FallbackErrors}
    \cup {[threw |-> FALSE, message |-> "", items |-> c] : c \in Catalogs}

\* ------------------------------------------------------------------------
\* state
\* ------------------------------------------------------------------------
VARIABLES
    env,      \* process.env
    cache,    \* the module-level Map
    now,      \* Date.now()
    slots,    \* the handler invocations in progress
    out,      \* the invocation that ended last, with its response
    started,  \* number of invocations so far
    item,     \* normalizeSerpItem on its own: its argument
    offer     \* normalizeSerpItem on its own: what it returned

vars == <<env, cache, now, slots, out, started, item, offer>>

\* an invocation: where it stands, its request, its locals, its response, the
\* calls it issued and what they did, the usable records the primary call
\* returned (nUsable), the age of the entry that cache.get returned (seenAge,
\* NoEntry without one) and the time of its response (doneAt)
NoEntry == -1

IdleSlot ==
    [pc |-> "idle", req |-> NoRequest, query |-> << >>, apiKey |-> JNull,
     resp |-> NoResp, nPrimary |-> 0, nFallback |-> 0,
     primary |-> "none", fallback |-> "none", nUsable |-> 0, seenAge |-> NoEntry,
     doneAt |-> 0]

\* normalizeSerpItem has not returned
NoOffer ==
    [title |-> Undef, price |-> NullPrice, currency |-> Undef, image |-> Undef,
     link |-> Undef, merchant |-> Undef, raw |-> << >>]

Init ==
    /\ env \in Envs
    /\ cache = << >>
    /\ now = 0
    /\ slots = [r \in Slots |-> IdleSlot]
    /\ out = IdleSlot
    /\ started = 0
    /\ item = EmptyItem
    /\ offer = NoOffer

\* the answer is sent and the invocation ends
Finish(slot, response, t) == [slot EXCEPT !.pc = "done", !.resp = response, !.doneAt = t]

\* the call of callFakeStore up to its first await
StartFallback(slot) ==
    [slot EXCEPT !.pc = "fallback", !.nFallback = @ + 1]

\* the call of callSerpApi up to its first await
StartPrimary(slot) ==
    [slot EXCEPT !.pc = "primary", !.nPrimary = @ + 1]

\* variant: handler without the test of the empty query
HandleStepUnvalidated(slot, c, t, e) ==
    LET query == RequestQuery(slot.req)
        cacheKey == CacheKey(query)
        apiKey == ReadApiKey(e)
        local == [slot EXCEPT !.query = query]
        looked == [local EXCEPT !.seenAge = IF cacheKey \in DOMAIN c
                                             THEN t - c[cacheKey].ts ELSE NoEntry]
    IN  IF slot.req.method = "OPTIONS" THEN Finish(slot, RespOptions, t)
        ELSE IF IsFresh(c, cacheKey, t)
        THEN Finish(looked, RespCache(c[cacheKey].data), t)
        ELSE IF UsePrimary(apiKey) THEN StartPrimary([looked EXCEPT !.apiKey = apiKey])
        ELSE StartFallback([looked EXCEPT !.apiKey = apiKey])

\* handler from its entry to its first await or to the response
HandleStep(slot, c, t, e) ==
    LET query == RequestQuery(slot.req)
        cacheKey == CacheKey(query)
        apiKey == ReadApiKey(e)
        local == [slot EXCEPT !.query = query]
        looked == [local EXCEPT !.seenAge = IF cacheKey \in DOMAIN c
                                             THEN t - c[cacheKey].ts ELSE NoEntry]
    IN  IF slot.req.method = "OPTIONS" THEN Finish(slot, RespOptions, t)
        ELSE IF query = << >> THEN Finish(local, RespMissing, t)
        ELSE IF IsFresh(c, cacheKey, t)
        THEN Finish(looked, RespCache(c[cacheKey].data), t)
        ELSE IF UsePrimary(apiKey) THEN StartPrimary([looked EXCEPT !.apiKey = apiKey])
        ELSE StartFallback([looked EXCEPT !.apiKey = apiKey])

\* what a step of an invocation does: the invocation afterwards, and the
\* cache.set it performed if any
NoWrite(slot) == [slot |-> slot, write |-> FALSE, data |-> << >>]

\* variant: the cache written only for a list that holds something
CacheAndReturnNonEmpty(slot, normalized, t) ==
    [slot |-> Finish(slot, RespOk(slot.apiKey, normalized), t),
     write |-> normalized # << >>, data |-> normalized]

\* cache.set(...) and res.status(200).json(...)
CacheAndReturn(slot, normalized, t) ==
    [slot |-> Finish(slot, RespOk(slot.apiKey, normalized), t),
     write |-> TRUE, data |-> normalized]

\* history: how many records of what callSerpApi ended with have a price and
\* a link
UsableOffers(outcome) ==
    IF outcome.threw THEN 0
    ELSE LET rawList == RawListOf(outcome.serp)
         IN  IF rawList.t # "array" THEN 0
             ELSE Cardinality({i \in 1..Len(rawList.items) :
                                 KeepOffer(normalizeSerpItem(rawList.items[i]))})

\* variant: callSerpApi called once more after it threw
PrimaryStepRetrying(slot, outcome, t) ==
    LET normalized == PrimaryOffers(outcome)
        after == [slot EXCEPT !.primary = IF outcome.threw THEN "threw" ELSE "ok",
                              !.nUsable = UsableOffers(outcome)]
    IN  IF outcome.threw /\ slot.nPrimary < 2
        THEN NoWrite(StartPrimary([after EXCEPT !.primary = "none"]))
        ELSE IF NeedsFallback(normalized)
        THEN NoWrite(StartFallback(after))
        ELSE CacheAndReturn(after, normalized, t)

\* variant: the inner try without its catch, the primary's error reaches the outer one
PrimaryStepRethrow(slot, outcome, t) ==
    LET normalized == PrimaryOffers(outcome)
        after == [slot EXCEPT !.primary = IF outcome.threw THEN "threw" ELSE "ok",
                              !.nUsable = UsableOffers(outcome)]
    IN  IF outcome.threw THEN NoWrite(Finish(after, RespError(outcome.message), t))
        ELSE IF NeedsFallback(normalized) THEN NoWrite(StartFallback(after))
        ELSE CacheAndReturn(after, normalized, t)

\* the await of callSerpApi ends; handler runs on to the fallback call or to the response
PrimaryStep(slot, outcome, t) ==
    LET normalized == PrimaryOffers(outcome)
        after == [slot EXCEPT !.primary = IF outcome.threw THEN "threw" ELSE "ok",
                              !.nUsable = UsableOffers(outcome)]
    IN  IF NeedsFallback(normalized)
        THEN NoWrite(StartFallback(after))
        ELSE CacheAndReturn(after, normalized, t)

\* variant: handler without its outer catch, the error of callFakeStore escapes
\* and nothing is sent
FallbackStepUncaught(slot, outcome, t) ==
    LET after == [slot EXCEPT !.fallback = IF outcome.threw THEN "threw" ELSE "ok"]
    IN  IF outcome.threw
        THEN NoWrite(Finish(after, NoResp, t))
        ELSE CacheAndReturn(after, SortByPrice(callFakeStore(slot.query, outcome.items)), t)

\* variant: a failure of callFakeStore caught and taken for an empty catalogue
FallbackStepRecovering(slot, outcome, t) ==
    LET after == [slot EXCEPT !.fallback = IF outcome.threw THEN "threw" ELSE "ok"]
    IN  CacheAndReturn(after, SortByPrice(callFakeStore(slot.query, outcome.items)), t)

\* the awaits of callFakeStore end; handler runs on to the response
FallbackStep(slot, outcome, t) ==
    LET after == [slot EXCEPT !.fallback = IF outcome.threw THEN "threw" ELSE "ok"]
    IN  IF outcome.threw
        THEN NoWrite(Finish(after, RespError(outcome.message), t))
        ELSE CacheAndReturn(after, SortByPrice(callFakeStore(slot.query, outcome.items)), t)

\* invocation r moves on to `slot`
Advance(r, slot) ==
    IF slot.pc = "done"
    THEN /\ out' = slot
         /\ slots' = [slots EXCEPT ![r] = IdleSlot]
    ELSE /\ slots' = [slots EXCEPT ![r] = slot]
         /\ UNCHANGED out

\* variant: a write that adds its list to the one the entry holds
ApplyMerging(r, step) ==
    /\ Advance(r, step.slot)
    /\ cache' = IF step.write
                THEN LET key == CacheKey(step.slot.query)
                     IN  CacheSet(cache, key, now,
                                  IF key \in DOMAIN cache
                                  THEN SortByPrice(cache[key].data \o step.data)
                                  ELSE step.data)
                ELSE cache

Apply(r, step) ==
    /\ Advance(r, step.slot)
    /\ cache' = IF step.write
                THEN CacheSet(cache, CacheKey(step.slot.query), now, step.data)
                ELSE cache

\* the hosting runtime invokes handler(req, res) in the first free slot; the
\* handler runs to its first await or to its response
Handle(r, req) ==
    /\ slots[r].pc = "idle"
    /\ \A f \in Slots : f < r => slots[f].pc # "idle"
    /\ started < MaxRequests
    /\ started' = started + 1
    /\ Advance(r, HandleStep([IdleSlot EXCEPT !.req = req], cache, now, env))
    /\ UNCHANGED <<env, cache, now, item, offer>>

PrimaryReturn(r, outcome) ==
    /\ slots[r].pc = "primary"
    /\ Apply(r, PrimaryStep(slots[r], outcome, now))
    /\ UNCHANGED <<env, now, started, item, offer>>

FallbackReturn(r, outcome) ==
    /\ slots[r].pc = "fallback"
    /\ Apply(r, FallbackStep(slots[r], outcome, now))
    /\ UNCHANGED <<env, now, started, item, offer>>

\* the instants the model looks at: just before the time-to-live has passed
\* since the start, then every millisecond after it
TickStep == IF now = 0 THEN CACHE_TTL_MS - 1 ELSE 1

TicksSoFar == IF now = 0 THEN 0 ELSE now - (CACHE_TTL_MS - 1) + 1

\* time passes
Tick ==
    /\ TicksSoFar < MaxTicks
    /\ now' = now + TickStep
    /\ UNCHANGED <<env, cache, slots, out, started, item, offer>>

Next ==
    \/ \E r \in Slots, req \in Requests : Handle(r, req)
    \/ \E r \in Slots, outcome \in PrimaryOutcomes : PrimaryReturn(r, outcome)
    \/ \E r \in Slots, outcome \in FallbackOutcomes : FallbackReturn(r, outcome)
    \/ Tick

Spec == Init /\ [][Next]_vars

\* ------------------------------------------------------------------------
\* vocabulary of the properties
\* ------------------------------------------------------------------------
\* an invocation ended with a 200 JSON body { source, results }
Answered200(inv) == inv.pc = "done" /\ inv.resp.status = 200 /\ inv.resp.kind = "json"

\* this step invokes the handler in slot r
Begins(r) ==
    /\ started' = started + 1
    /\ slots[r].pc = "idle"
    /\ \A f \in Slots : f < r => slots[f].pc # "idle"

\* this step ends the invocation of slot r, begun in this step or earlier
Ends(r) ==
    /\ slots'[r].pc = "idle"
    /\ \/ Begins(r)
       \/ slots[r].pc \in {"primary", "fallback"}

\* the invocation that began in slot r, as it is after the step
Begun(r) == IF slots'[r].pc = "idle" THEN out' ELSE slots'[r]

\* the query a request supplies: the query parameter, else the body's field
Supplied(req) ==
    IF req.query.query.t = "str" THEN req.query.query.v
    ELSE IF req.body.present /\ req.body.query.t = "str" THEN req.body.query.v
    ELSE << >>

\* the request supplies no query, or one of white space only
Blank(req) == \A i \in 1..Len(Supplied(req)) : Supplied(req)[i] = " "

\* the key of a request: its query without the surrounding blanks, in lower case
KeyOf(req) ==
    LET q == Supplied(req)
        inner == {i \in 1..Len(q) : q[i] # " "}
        lo == CHOOSE i \in inner : \A j \in inner : i <= j
        hi == CHOOSE i \in inner : \A j \in inner : j <= i
    IN  <<"q", ":">> \o [i \in 1..(hi - lo + 1) |->
                            IF q[lo + i - 1] = "A" THEN "a" ELSE q[lo + i - 1]]

\* some recognised environment variable holds a credential
Credential == \E n \in DOMAIN env : env[n].t = "str" /\ Len(env[n].v) > 0

SortedAscending(list) ==
    \A i, j \in 1..Len(list) : i < j => list[i].price <= list[j].price

\* ------------------------------------------------------------------------
\* C1: every 200 response to a non-empty query, from the cache, the primary
\* path or the fallback path, lists its results in ascending order of price
\* ------------------------------------------------------------------------
C1_ResultsSorted ==
    Answered200(out) => SortedAscending(out.resp.results)

\* a cached list of two offers of different price was served
C1_Witness ==
    /\ Answered200(out)
    /\ out.resp.source = "cache"
    /\ Len(out.resp.results) = 2
    /\ out.resp.results[1].price < out.resp.results[2].price

\* ------------------------------------------------------------------------
\* C2: after a request was answered 200, the same request repeated within
\* the cache window of the list it returned is answered 200 from the cache
\* with the same list, and calls neither adapter
\* ------------------------------------------------------------------------
\* the instant the list of a 200 response was written to the cache
WrittenAt(inv) ==
    IF inv.resp.source = "cache" THEN inv.doneAt - inv.seenAge ELSE inv.doneAt

C2_RepeatServedFromCache ==
    [][\A r \in Slots :
        (/\ Begins(r)
         /\ Answered200(out)
         /\ Begun(r).req = out.req
         /\ now - WrittenAt(out) < CACHE_TTL_MS)
        => /\ Ends(r)
           /\ out'.resp.status = 200
           /\ out'.resp.source = "cache"
           /\ out'.resp.results = out.resp.results
           /\ out'.nPrimary = 0 /\ out'.nFallback = 0
           /\ out'.primary = "none" /\ out'.fallback = "none"]_vars

\* a request was answered from the cache, just before the window closed, with
\* the non-empty list a miss had written
C2_Witness ==
    /\ Answered200(out)
    /\ out.resp.source = "cache"
    /\ out.seenAge = CACHE_TTL_MS - 1
    /\ out.resp.results # << >>
    /\ out.nPrimary = 0 /\ out.nFallback = 0

\* ------------------------------------------------------------------------
\* C3: once the cache window of an entry has elapsed, a request for its query
\* is not served from the cache: it calls the primary adapter when a
\* credential is configured, the fallback adapter otherwise, and its source
\* is not "cache"
\* ------------------------------------------------------------------------
C3_StaleEntryRefetched ==
    [][/\ \A r \in Slots :
            (/\ Begins(r)
             /\ Begun(r).req.method # "OPTIONS"
             /\ ~Blank(Begun(r).req)
             /\ KeyOf(Begun(r).req) \in DOMAIN cache
             /\ now - cache[KeyOf(Begun(r).req)].ts >= CACHE_TTL_MS)
            => /\ ~Ends(r)
               /\ slots'[r].pc = (IF Credential THEN "primary" ELSE "fallback")
               /\ slots'[r].nPrimary = (IF Credential THEN 1 ELSE 0)
               /\ slots'[r].nFallback = (IF Credential THEN 0 ELSE 1)
       /\ (out'.pc = "done" /\ out'.seenAge >= CACHE_TTL_MS)
            => out'.resp.source # "cache"]_vars

\* a request that found an entry exactly as old as the window was answered
\* 200 from upstream
C3_Witness ==
    /\ Answered200(out)
    /\ out.seenAge = CACHE_TTL_MS
    /\ out.resp.source # "cache"
    /\ out.nPrimary + out.nFallback > 0

\* ------------------------------------------------------------------------
\* C4: with a credential configured, a request whose primary call threw is
\* still answered 200 from fallback data, and the primary failure is never
\* surfaced as an error response
\* ------------------------------------------------------------------------
\* an offer that came from the catalogue of the fallback source
FromFallback(o) == o.raw = << >> /\ o.merchant = Str(<<"FakeStore">>)

\* as claimed: whenever the primary call threw, the answer is 200
C4_Original ==
    (out.pc = "done" /\ out.primary = "threw") => out.resp.status = 200

\* as amended: the fallback adapter is called once; if it succeeds the answer is
\* 200 with fallback offers only, if it fails too the answer is 500 with the
\* fallback's message; the primary's message is in no response
C4_PrimaryFailureFallsBack ==
    /\ (out.pc = "done" /\ out.primary = "threw")
        => /\ Credential
           /\ out.nFallback = 1
           /\ out.fallback = "ok"
                => /\ Answered200(out)
                   /\ \A i \in 1..Len(out.resp.results) : FromFallback(out.resp.results[i])
           /\ out.fallback = "threw"
                => /\ out.resp.status = 500
                   /\ out.resp.details \in FallbackErrors
    /\ out.resp.details \notin PrimaryErrors

\* the primary call threw and the answer is 200 with an offer of the catalogue
C4_Witness ==
    /\ out.primary = "threw"
    /\ Answered200(out)
    /\ out.resp.results # << >>
    /\ FromFallback(out.resp.results[1])

\* ------------------------------------------------------------------------
\* C5: every offer that came from the primary source, in a response or in a
\* cache entry, has a price and a link; records without either are left out
\* ------------------------------------------------------------------------
FromPrimary(o) == o.raw # << >>

HasPriceAndLink(o) == o.price # NullPrice /\ o.link.t = "str" /\ o.link.v # << >>

AllPrimaryComplete(list) ==
    \A i \in 1..Len(list) : FromPrimary(list[i]) => HasPriceAndLink(list[i])

C5_PrimaryOffersComplete ==
    /\ AllPrimaryComplete(out.resp.results)
    /\ \A k \in DOMAIN cache : AllPrimaryComplete(cache[k].data)

\* the primary path answered with the one complete record of a list that also
\* held a record without link and one without price, and the cache holds it
C5_Witness ==
    /\ Answered200(out)
    /\ out.primary = "ok" /\ out.nFallback = 0
    /\ Len(out.resp.results) = 1
    /\ out.resp.results[1].raw = <<ItemInk>>
    /\ \E k \in DOMAIN cache : cache[k].data = out.resp.results

\* ------------------------------------------------------------------------
\* C6: a request with an empty or blank query is answered 400
\* { error: "Missing query parameter" } whatever its method
\* ------------------------------------------------------------------------
\* as claimed: for GET, POST and OPTIONS alike
C6_Original ==
    (out.pc = "done" /\ Blank(out.req))
        => out.resp.status = 400 /\ out.resp.error = "Missing query parameter"

\* as amended: for every method but OPTIONS, which is answered 200 with an
\* empty body before the query is looked at
C6_BlankQueryRejected ==
    /\ (out.pc = "done" /\ Blank(out.req) /\ out.req.method # "OPTIONS")
        => /\ out.resp.status = 400
           /\ out.resp.kind = "json"
           /\ out.resp.error = "Missing query parameter"
    /\ (out.pc = "done" /\ out.req.method = "OPTIONS")
        => out.resp.status = 200 /\ out.resp.kind = "end"

\* a POST whose body carries an empty query was answered 400
C6_Witness ==
    /\ out.pc = "done"
    /\ out.req.method = "POST" /\ Blank(out.req)
    /\ out.resp.status = 400

\* ------------------------------------------------------------------------
\* C7: a request rejected for its empty query calls no adapter and leaves the
\* cache as it is: no entry read as a hit, created or overwritten
\* ------------------------------------------------------------------------
C7_RejectedRequestHasNoEffect ==
    [][\A r \in Slots :
        (Begins(r) /\ Begun(r).req.method # "OPTIONS" /\ Blank(Begun(r).req))
        => /\ Ends(r)
           /\ cache' = cache
           /\ out'.nPrimary = 0 /\ out'.nFallback = 0
           /\ out'.seenAge = NoEntry
           /\ out'.resp.source = "" /\ out'.resp.results = << >>]_vars

\* a blank query was rejected while the cache held an entry
C7_Witness ==
    /\ out.pc = "done" /\ out.resp.status = 400
    /\ Blank(out.req)
    /\ DOMAIN cache # {}

\* ------------------------------------------------------------------------
\* C8: a failure of the fallback call is not recovered: the answer is 500
\* { error: "Server error", details }, and no step of that request writes
\* the cache
\* ------------------------------------------------------------------------
C8_FallbackFailureIs500 ==
    [][\A r \in Slots :
        /\ (Ends(r) /\ out'.fallback = "threw")
            => /\ out'.resp.status = 500
               /\ out'.resp.kind = "json"
               /\ out'.resp.error = "Server error"
               /\ out'.resp.details \in FallbackErrors
               /\ cache' = cache
        /\ (slots'[r] # slots[r] /\ slots'[r].pc = "fallback") => cache' = cache]_vars

\* the fallback call of a request failed while the cache held an entry, now
\* stale, for its key
C8_Witness ==
    /\ out.pc = "done" /\ out.fallback = "threw"
    /\ out.resp.status = 500
    /\ out.seenAge >= CACHE_TTL_MS
    /\ KeyOf(out.req) \in DOMAIN cache

\* ------------------------------------------------------------------------
\* C9: every cache miss answered 200 writes the list it returns, with the
\* time of the write, under the key of its query, whatever the list holds; an
\* empty list is cached too, and the same query within the window is then
\* served from the cache without an upstream call
\* ------------------------------------------------------------------------
C9_MissWritesCache ==
    [][\A r \in Slots :
        /\ (Ends(r) /\ Answered200(out') /\ out'.resp.source # "cache")
            => /\ KeyOf(out'.req) \in DOMAIN cache'
               /\ cache'[KeyOf(out'.req)] = [ts |-> now, data |-> out'.resp.results]
        /\ (/\ Begins(r)
            /\ Answered200(out) /\ out.resp.source # "cache"
            /\ out.resp.results = << >>
            /\ Begun(r).req = out.req
            /\ now - out.doneAt < CACHE_TTL_MS)
            => /\ Ends(r)
               /\ out'.resp.source = "cache"
               /\ out'.resp.results = << >>
               /\ out'.nPrimary + out'.nFallback = 0]_vars

\* an empty list was served from the cache
C9_Witness ==
    /\ Answered200(out)
    /\ out.resp.source = "cache"
    /\ out.resp.results = << >>
    /\ KeyOf(out.req) \in DOMAIN cache
    /\ cache[KeyOf(out.req)].data = << >>

\* ------------------------------------------------------------------------
\* C10: without a credential no request calls the primary adapter, and that
\* is no error: a valid query that misses the cache goes straight to the
\* fallback adapter and is answered 200 if the fallback succeeds
\* ------------------------------------------------------------------------
NeverPrimary(inv) == inv.pc # "primary" /\ inv.nPrimary = 0 /\ inv.primary = "none"

C10_NoCredentialNoPrimary ==
    ~Credential
    => /\ NeverPrimary(out)
       /\ \A r \in Slots : NeverPrimary(slots[r])
       /\ (out.pc = "done" /\ out.fallback = "ok")
            => Answered200(out) /\ out.resp.source = "fallback-only"
       /\ (out.pc = "done" /\ out.resp.status = 500) => out.fallback = "threw"
       /\ (out.pc = "done" /\ out.req.method # "OPTIONS" /\ ~Blank(out.req)
           /\ out.resp.source # "cache")
            => out.nFallback = 1

\* without a credential a request was answered 200 with offers of the catalogue
C10_Witness ==
    /\ ~Credential
    /\ Answered200(out)
    /\ out.resp.source = "fallback-only"
    /\ out.nFallback = 1
    /\ out.resp.results # << >>

\* ------------------------------------------------------------------------
\* C11: whatever the adapters do, every invocation ends with one response, of
\* status 200, 400 or 500, and an invocation whose upstream calls have
\* returned or failed is not left unanswered
\* ------------------------------------------------------------------------
\* an invocation that was answered: its one response is a JSON body
JsonAnswer(inv) ==
    /\ inv.resp.kind = "json"
    /\ inv.resp.status \in {200, 400, 500}
    /\ inv.resp \in {RespMissing, RespCache(inv.resp.results),
                     RespOk(inv.apiKey, inv.resp.results), RespError(inv.resp.details)}

\* as claimed: every response is a JSON response
C11_Original ==
    out.pc = "done" => JsonAnswer(out)

\* as amended: every response but that to OPTIONS, which is 200 without a body;
\* an invocation in progress has sent nothing and waits for one upstream call;
\* the return of the fallback call ends the invocation, the return of the
\* primary call ends it or issues the fallback call
C11_ExactlyOneResponse ==
    [][\A r \in Slots :
        /\ Ends(r)
            => /\ out'.pc = "done"
               /\ IF out'.req.method = "OPTIONS"
                  THEN out'.resp = RespOptions
                  ELSE JsonAnswer(out')
        /\ slots'[r].pc \in {"idle", "primary", "fallback"}
        /\ slots'[r].resp = NoResp
        /\ (Begins(r) /\ ~Ends(r)) => slots'[r].pc \in {"primary", "fallback"}
        /\ (slots[r].pc = "primary" /\ slots'[r] # slots[r])
            => Ends(r) \/ (slots'[r].pc = "fallback" /\ slots'[r].primary # "none")
        /\ (slots[r].pc = "fallback" /\ slots'[r] # slots[r]) => Ends(r)]_vars

\* the primary call returned, the fallback call threw, and the answer is the
\* JSON body of a 500
C11_Witness ==
    /\ out.pc = "done"
    /\ out.primary = "ok" /\ out.fallback = "threw"
    /\ out.resp = RespError(out.resp.details)
    /\ out.resp.details \in FallbackErrors

\* ------------------------------------------------------------------------
\* C12: a request calls the fallback adapter exactly when it missed the cache
\* and the primary path gave no usable offer (no credential, primary failure,
\* empty list, every record filtered out); with a usable primary offer the
\* fallback adapter is not called; the fallback call is issued only after the
\* primary call has returned or failed
\* ------------------------------------------------------------------------
\* the entry of the request's key is within its window
FreshFor(req) ==
    /\ KeyOf(req) \in DOMAIN cache
    /\ now - cache[KeyOf(req)].ts < CACHE_TTL_MS

\* the request reaches the cache and misses it
MissesCache(req) == req.method # "OPTIONS" /\ ~Blank(req) /\ ~FreshFor(req)

C12_FallbackIffNoPrimaryOffer ==
    [][\A r \in Slots :
        /\ Begins(r)
            => /\ Begun(r).nFallback = 1 <=> (MissesCache(Begun(r).req) /\ ~Credential)
               /\ Begun(r).nPrimary = 1 <=> (MissesCache(Begun(r).req) /\ Credential)
               /\ Begun(r).nFallback = 1 => slots'[r].pc = "fallback"
        /\ (slots[r].pc = "primary" /\ slots'[r] # slots[r])
            => /\ Begun(r).primary \in {"ok", "threw"}
               /\ Begun(r).nUsable = 0
                    <=> (slots'[r].pc = "fallback" /\ slots'[r].nFallback = 1)
               /\ Begun(r).nUsable > 0
                    => /\ Ends(r)
                       /\ out'.nFallback = 0 /\ out'.fallback = "none"
                       /\ Len(out'.resp.results) = out'.nUsable
                       /\ \A i \in 1..Len(out'.resp.results) :
                            FromPrimary(out'.resp.results[i])
        /\ slots'[r].pc = "primary" => slots'[r].nFallback = 0
        /\ slots'[r].pc = "fallback"
            => /\ slots'[r].nFallback = 1
               /\ slots'[r].nPrimary = 1 => slots'[r].primary \in {"ok", "threw"}
        /\ Ends(r) => (out'.fallback # "none" <=> out'.nFallback = 1)]_vars

\* the primary call returned records of which none was usable, the fallback
\* adapter was called after it, and its offers were answered
C12_Witness ==
    /\ Answered200(out)
    /\ out.nPrimary = 1 /\ out.primary = "ok"
    /\ out.nFallback = 1 /\ out.fallback = "ok"
    /\ out.resp.results # << >>
    /\ \A i \in 1..Len(out.resp.results) : FromFallback(out.resp.results[i])

\* ------------------------------------------------------------------------
\* C13: the source of a 200 response is "cache" exactly when its list was
\* served from a fresh entry; otherwise it is "serpapi-or-fallback" with a
\* credential configured and "fallback-only" without one; a "fallback-only"
\* response holds no offer of the primary adapter
\* ------------------------------------------------------------------------
\* the invocation read an entry within its window and answered with its list
ServedFromEntry(inv) ==
    /\ inv.seenAge # NoEntry
    /\ inv.seenAge < CACHE_TTL_MS
    /\ inv.nPrimary = 0 /\ inv.nFallback = 0
    /\ KeyOf(inv.req) \in DOMAIN cache
    /\ cache[KeyOf(inv.req)] = [ts |-> inv.doneAt - inv.seenAge, data |-> inv.resp.results]

C13_SourceTellsPath ==
    Answered200(out)
    => /\ out.resp.source = "cache" <=> ServedFromEntry(out)
       /\ out.resp.source # "cache"
            => /\ out.resp.source = (IF Credential THEN "serpapi-or-fallback"
                                     ELSE "fallback-only")
               /\ out.nPrimary + out.nFallback > 0
       /\ out.resp.source = "fallback-only"
            => /\ out.nPrimary = 0
               /\ \A i \in 1..Len(out.resp.results) : ~FromPrimary(out.resp.results[i])

\* with a credential configured the answer holds offers of the catalogue only
\* and its source is "serpapi-or-fallback"
C13_Witness ==
    /\ Answered200(out)
    /\ out.resp.source = "serpapi-or-fallback"
    /\ Credential
    /\ out.nPrimary = 1 /\ out.nFallback = 1
    /\ out.resp.results # << >>
    /\ FromFallback(out.resp.results[1])
    /\ cache[KeyOf(out.req)].data = out.resp.results

\* ------------------------------------------------------------------------
\* C14: the cache key is the trimmed query in lower case: after a 200 for one
\* query, a query that differs from it only in case or surrounding blanks is
\* served, within the window, from the cache with the same list; queries
\* that differ after trimming and lower-casing never share an entry
\* ------------------------------------------------------------------------
\* the request reaches the cache
Looks(req) == req.method # "OPTIONS" /\ ~Blank(req)

C14_KeyIsTrimmedLowerCase ==
    [][\A r \in Slots :
        /\ (/\ Begins(r)
            /\ Looks(Begun(r).req)
            /\ Answered200(out)
            /\ KeyOf(Begun(r).req) = KeyOf(out.req)
            /\ now - WrittenAt(out) < CACHE_TTL_MS)
            => /\ Ends(r)
               /\ out'.resp.source = "cache"
               /\ out'.resp.results = out.resp.results
        /\ (Begins(r) /\ Ends(r) /\ out'.resp.source = "cache")
            => /\ KeyOf(out'.req) \in DOMAIN cache
               /\ out'.resp.results = cache[KeyOf(out'.req)].data
        /\ (Ends(r) /\ cache' # cache)
            => \A k \in DOMAIN cache' :
                 k # KeyOf(out'.req) => k \in DOMAIN cache /\ cache'[k] = cache[k]
        /\ (Begins(r) /\ Looks(Begun(r).req) /\ KeyOf(Begun(r).req) \notin DOMAIN cache)
            => ~Ends(r)]_vars

\* the query " A" was served from the cache, whose one entry is that of "a"
C14_Witness ==
    /\ Answered200(out)
    /\ out.resp.source = "cache"
    /\ out.req = Post(Str(<<" ", "A">>))
    /\ out.resp.results # << >>
    /\ DOMAIN cache = {<<"q", ":", "a">>}

\* ------------------------------------------------------------------------
\* C15: which age of an entry makes it a miss
\* ------------------------------------------------------------------------
\* as claimed: an entry is served up to and including the age of the
\* time-to-live, and ignored beyond it
C15_Original ==
    (Answered200(out) /\ out.seenAge # NoEntry)
        => (out.resp.source = "cache" <=> out.seenAge <= CACHE_TTL_MS)

\* as amended: an entry is served while its age is below the time-to-live, and
\* ignored from the age of exactly the time-to-live on
C15_ServedWhileYoungerThanTtl ==
    /\ (out.pc = "done" /\ out.seenAge # NoEntry)
        => (out.resp.source = "cache" <=> out.seenAge < CACHE_TTL_MS)
    /\ \A r \in Slots :
        slots[r].pc \in {"primary", "fallback"}
            => slots[r].seenAge = NoEntry \/ slots[r].seenAge >= CACHE_TTL_MS

\* a request found a list exactly as old as the time-to-live and waits for an
\* adapter
C15_Witness ==
    \E r \in Slots :
        /\ slots[r].pc \in {"primary", "fallback"}
        /\ slots[r].seenAge = CACHE_TTL_MS
        /\ cache[KeyOf(slots[r].req)].ts = now - CACHE_TTL_MS
        /\ cache[KeyOf(slots[r].req)].data # << >>

\* ------------------------------------------------------------------------
\* C16: the cache changes only by the write of the requesting query's own key
\* when a miss is answered 200: no step removes a key, the entries of the
\* other keys stay as they are, and a hit leaves the whole cache, the
\* timestamp of its entry included, unchanged
\* ------------------------------------------------------------------------
C16_OnlyOwnKeyWritten ==
    [][/\ DOMAIN cache \subseteq DOMAIN cache'
       /\ cache' # cache
            => \E r \in Slots :
                 /\ Ends(r)
                 /\ slots[r].pc \in {"primary", "fallback"}
                 /\ Answered200(out')
                 /\ out'.resp.source # "cache"
                 /\ DOMAIN cache' = DOMAIN cache \cup {KeyOf(out'.req)}
                 /\ \A k \in DOMAIN cache : k # KeyOf(out'.req) => cache'[k] = cache[k]
       /\ \A r \in Slots :
            /\ Begins(r) => cache' = cache
            /\ (Ends(r) /\ out'.resp.source = "cache") => cache' = cache
            /\ (Ends(r) /\ out'.resp.status # 200) => cache' = cache
            /\ (slots'[r] # slots[r] /\ ~Ends(r)) => cache' = cache]_vars

\* a miss wrote the entry of its own key, and the entry of another key, stale
\* since the time-to-live has passed, is still in the cache
C16_Witness ==
    /\ Answered200(out)
    /\ out.resp.source # "cache"
    /\ cache[KeyOf(out.req)].ts = out.doneAt
    /\ \E k \in DOMAIN cache :
         /\ k # KeyOf(out.req)
         /\ now - cache[k].ts >= CACHE_TTL_MS
         /\ cache[k].data # << >>

\* ------------------------------------------------------------------------
\* C17: no retry: a request calls the primary adapter at most once and the
\* fallback adapter at most once, whatever the calls end with; a request
\* served from the cache calls neither
\* ------------------------------------------------------------------------
AtMostOneCallEach(inv) ==
    /\ inv.nPrimary \in {0, 1}
    /\ inv.nFallback \in {0, 1}
    /\ inv.primary # "none" => inv.nPrimary = 1
    /\ inv.fallback # "none" => inv.nFallback = 1
    /\ inv.pc = "primary" => inv.nPrimary = 1 /\ inv.primary = "none" /\ inv.nFallback = 0
    /\ inv.pc = "fallback" => inv.nFallback = 1 /\ inv.fallback = "none"
    /\ (inv.pc = "done" /\ inv.resp.source = "cache")
        => inv.nPrimary = 0 /\ inv.nFallback = 0

C17_NoRetry ==
    /\ AtMostOneCallEach(out)
    /\ \A r \in Slots : AtMostOneCallEach(slots[r])

\* both calls of a request threw, and each was issued once
C17_Witness ==
    /\ out.pc = "done"
    /\ out.primary = "threw" /\ out.fallback = "threw"
    /\ out.nPrimary = 1 /\ out.nFallback = 1
    /\ out.resp.status = 500

\* ------------------------------------------------------------------------
\* C18: with invocations interleaved at their awaits on the shared cache, two
\* refreshes of one key included, every entry is the whole sorted list of one
\* request for its key, never a part of one or a merge of two, and every list
\* served from the cache is the list a miss for that key answered with
\* ------------------------------------------------------------------------
\* the list of one request: in ascending order, and from one adapter, the
\* provider's records that have a price and a link or the products of the
\* catalogue that match the query of the key
FromOneAdapter(list, query) ==
    \/ \A i \in 1..Len(list) : FromPrimary(list[i]) /\ HasPriceAndLink(list[i])
    \/ \A i \in 1..Len(list) :
         FromFallback(list[i]) /\ Includes(ToLowerCase(list[i].title.v), query)

EntryIsOneList(c, k) ==
    /\ SortedAscending(c[k].data)
    /\ FromOneAdapter(c[k].data, SubSeq(k, 3, Len(k)))

C18_EntriesAreWholeLists ==
    [][/\ \A k \in DOMAIN cache' :
            (k \notin DOMAIN cache \/ cache'[k] # cache[k]) => EntryIsOneList(cache', k)
       /\ \A r \in Slots :
            /\ (Ends(r) /\ Answered200(out') /\ out'.resp.source # "cache")
                => cache'[KeyOf(out'.req)] = [ts |-> now, data |-> out'.resp.results]
            /\ (Ends(r) /\ Answered200(out') /\ out'.resp.source = "cache")
                => /\ KeyOf(out'.req) \in DOMAIN cache
                   /\ out'.resp.results = cache[KeyOf(out'.req)].data]_vars

\* two refreshes of one key overlap: one has written its list while the
\* other, which had found no entry, still waits for an adapter
C18_Witness ==
    \E r \in Slots :
        /\ slots[r].pc \in {"primary", "fallback"}
        /\ slots[r].seenAge = NoEntry
        /\ Answered200(out)
        /\ out.resp.source # "cache"
        /\ out.resp.results # << >>
        /\ KeyOf(slots[r].req) = KeyOf(out.req)
        /\ cache[KeyOf(out.req)].data = out.resp.results

\* ------------------------------------------------------------------------
\* the primary path alone, over provider lists with offers of equal price:
\* one request, a credential configured, no time passing
\* ------------------------------------------------------------------------
MaxRaw == 3

\* a record with the price of ItemPen, given without a currency sign
ItemPad ==
    [EmptyItem EXCEPT !.product_title = Str(<<"p", "a", "d">>), !.link = Str(<<"u", "3">>),
                      !.price = Str(<<"5", ".", "0", "0">>)]

TiedItems == {ItemPen, ItemPad, ItemInk, ItemNoLink}

\* the provider lists of n records
TiedLists(n) == [1..n -> TiedItems]

\* callSerpApi returned the envelope of the list l
TiedOutcome(l) ==
    [threw |-> FALSE, message |-> "",
     serp |-> [NoSerp EXCEPT !.shopping_results = ArrayOf(l)]]

InitPrimaryLists == Init /\ UsePrimary(ReadApiKey(env))

NextPrimaryLists ==
    \/ \E req \in {Get(Str(<<"a">>)), Get(Str(<<"a", "a">>)), Get(Str(<<" ", "A">>)),
                     Post(Str(<<" ", "A">>))} :
         started = 0 /\ Handle(1, req)
    \/ \E n \in 0..MaxRaw : \E l \in TiedLists(n) : PrimaryReturn(1, TiedOutcome(l))
    \/ \E outcome \in FallbackOutcomes : FallbackReturn(1, outcome)

SpecPrimaryLists == InitPrimaryLists /\ [][NextPrimaryLists]_vars

\* ------------------------------------------------------------------------
\* C19: the list of the primary path is a stable ascending sort of the
\* normalized records that have a price and a link: exactly those records,
\* none added, dropped or doubled, and offers of equal price in the order of
\* the provider's list
\* ------------------------------------------------------------------------
\* the normalized records of a provider list that have a price and a link, in
\* the order of the list
Kept(rawList) ==
    SelectSeq([i \in 1..Len(rawList) |-> normalizeSerpItem(rawList[i])], HasPriceAndLink)

\* `sorted` is `list` in ascending order of price, the offers of each price in
\* the order they have in `list`
IsStableSortOf(sorted, list) ==
    /\ Len(sorted) = Len(list)
    /\ SortedAscending(sorted)
    /\ \A i \in 1..Len(list) :
         SelectSeq(sorted, LAMBDA o : o.price = list[i].price)
           = SelectSeq(list, LAMBDA o : o.price = list[i].price)

C19_PrimaryListStableSorted ==
    [][\A n \in 0..MaxRaw : \A l \in TiedLists(n) :
        PrimaryReturn(1, TiedOutcome(l))
        => LET kept == Kept(l)
           IN  IF kept = << >>
               THEN slots'[1].pc = "fallback"
               ELSE /\ Ends(1)
                    /\ Answered200(out')
                    /\ IsStableSortOf(out'.resp.results, kept)
                    /\ cache'[KeyOf(out'.req)].data = out'.resp.results]_vars

\* the cheaper offer comes first and the two offers of equal price follow in
\* the order pad, pen, which only a provider list with pad before pen gives
C19_Witness ==
    /\ Answered200(out)
    /\ out.primary = "ok"
    /\ Len(out.resp.results) = 3
    /\ out.resp.results[1].raw = <<ItemInk>>
    /\ out.resp.results[2].raw = <<ItemPad>>
    /\ out.resp.results[3].raw = <<ItemPen>>
    /\ out.resp.results[2].price = out.resp.results[3].price

\* ------------------------------------------------------------------------
\* normalizeSerpItem on its own, over provider records that carry every
\* subset of the aliases of one group of fields, absent, empty or filled
\* ------------------------------------------------------------------------
Filled(s) == {Undef, Str(<< >>), Str(s)}

NoOffers == [present |-> FALSE, items |-> << >>]
OffersOf(items) == [present |-> TRUE, items |-> items]
SubOffer(p, e) == [price |-> p, extracted_price |-> e]

TitledItems ==
    {[EmptyItem EXCEPT !.title = a, !.product_title = b, !.name = c] :
        a \in Filled(<<"t">>), b \in Filled(<<"p">>), c \in {Undef, Str(<<"n">>)}}

LinkedItems ==
    {[EmptyItem EXCEPT !.link = a, !.product_link = b, !.source = c, !.result_link = d,
                       !.merchant = m, !.store = s] :
        a \in {Undef, Str(<<"l">>)}, b \in Filled(<<"p", "l">>),
        c \in {Undef, Str(<<"s">>)}, d \in {Undef, Str(<<"r">>)},
        m \in {Undef, Str(<<"m">>)}, s \in {Undef, Str(<<"s", "t">>)}}

PricedItems ==
    {[EmptyItem EXCEPT !.extracted_price = a, !.price = b, !.offers = o] :
        a \in {Undef, Num(<<"0">>), Num(<<"5">>)},
        b \in Filled(<<"$", "3", ".", "5">>),
        o \in {NoOffers, OffersOf(<< >>),
               OffersOf(<<SubOffer(Str(<<"$", "2">>), Undef)>>),
               OffersOf(<<SubOffer(Undef, Num(<<"7">>))>>),
               OffersOf(<<SubOffer(Str(<<"$", "2">>), Num(<<"7">>)),
                          SubOffer(Str(<<"$", "1">>), Undef)>>)}}

RawItems == TitledItems \cup LinkedItems \cup PricedItems

InitNormalize ==
    /\ env = NoEnv
    /\ cache = << >>
    /\ now = 0
    /\ slots = [r \in Slots |-> IdleSlot]
    /\ out = IdleSlot
    /\ started = 0
    /\ item \in RawItems
    /\ offer = NoOffer

\* normalizeSerpItem(item) returns
Normalize ==
    /\ offer = NoOffer
    /\ offer' = normalizeSerpItem(item)
    /\ UNCHANGED <<env, cache, now, slots, out, started, item>>

NextNormalize == Normalize

SpecNormalize == InitNormalize /\ [][NextNormalize]_vars

\* ------------------------------------------------------------------------
\* C20: normalizeSerpItem returns an offer for every record, whatever
\* subset of the known fields it carries; each field is the first non-empty
\* of its aliases in their order (title: title, product_title, name; link:
\* link, product_link, source, result_link; price source: extracted_price,
\* price, the first offer's price, the first offer's extracted_price;
\* merchant: merchant, source, store), and null, for the title the empty
\* string, when none is; an empty string and the number 0 count as empty
\* ------------------------------------------------------------------------
NonEmpty(x) == (x.t = "str" /\ Len(x.v) > 0) \/ (x.t = "num" /\ x.v # <<"0">>)

FirstNonEmpty(aliases, none) ==
    LET filled == {i \in 1..Len(aliases) : NonEmpty(aliases[i])}
    IN  IF filled = {} THEN none
        ELSE aliases[CHOOSE i \in filled : \A j \in filled : i <= j]

\* the first element of item.offers, if there is one
FirstSubOffer(it) ==
    IF it.offers.present /\ Len(it.offers.items) > 0 THEN it.offers.items[1]
    ELSE SubOffer(Undef, Undef)

PriceSource(it) ==
    FirstNonEmpty(<<it.extracted_price, it.price, FirstSubOffer(it).price,
                    FirstSubOffer(it).extracted_price>>, JNull)

C20_FirstNonEmptyAlias ==
    offer # NoOffer
    => /\ offer.raw = <<item>>
       /\ offer.title
            = FirstNonEmpty(<<item.title, item.product_title, item.name>>, Str(<< >>))
       /\ offer.link
            = FirstNonEmpty(<<item.link, item.product_link, item.source, item.result_link>>,
                            JNull)
       /\ offer.merchant
            = FirstNonEmpty(<<item.merchant, item.source, item.store>>, JNull)
       /\ offer.price = parsePrice(PriceSource(item))
       /\ PriceSource(item) = JNull => offer.price = NullPrice /\ offer.currency = JNull

\* a record without link and merchant, with an empty product_link, a source,
\* a result_link and a store: the source is both the link and the merchant
C20_Witness ==
    /\ offer.raw = <<item>>
    /\ item.link = Undef /\ item.product_link = Str(<< >>)
    /\ item.source = Str(<<"s">>) /\ item.result_link = Str(<<"r">>)
    /\ item.merchant = Undef /\ item.store = Str(<<"s", "t">>)
    /\ offer.link = Str(<<"s">>)
    /\ offer.merchant = Str(<<"s">>)
    /\ offer.title = Str(<< >>)
    /\ offer.price = NullPrice

====
